---------------------------- MODULE Spec2Model ----------------------------
(***************************************************************************)
(* Model of the ui-backend HTTP handlers (package server): the five GET    *)
(* handlers, their query-parameter parsers, the bearer-token               *)
(* authentication, the SubjectAccessReview permission checks and the       *)
(* filter / sort / window pipeline.  One request is in flight at a time;   *)
(* handlers share no per-request state.  Spec is the server handling       *)
(* requests while its listener runs; Lifecycle is instance.start with its  *)
(* listener goroutine, from the call of start to the end of the goroutine. *)
(*                                                                         *)
(* Strings that the code inspects character by character (the              *)
(* Authorization header, limit, skip, type, namespace, name) are           *)
(* sequences of one-character strings.                                     *)
(***************************************************************************)
EXTENDS Integers, Sequences, FiniteSets, TLC

(***************************************************************************)
(* Bounds of the model.                                                    *)
(***************************************************************************)
\* Largest number written in a limit or skip query parameter.
MaxParam == 2

(***************************************************************************)
(* Program constants.                                                      *)
(***************************************************************************)
maxItems == 6

StatusOK == 200
StatusBadRequest == 400
StatusUnauthorized == 401
StatusInternalServerError == 500

(***************************************************************************)
(* Strings.                                                                *)
(***************************************************************************)
\* The characters the model uses, in ASCII order.
Alphabet ==
    << " ", "+", "-", "0", "1", "2", "3", "4", "5", "6", "7", "8", "9", "=",
       "A", "B", "C", "D", "E", "F", "G", "H", "I", "J", "K", "L", "M",
       "N", "O", "P", "Q", "R", "S", "T", "U", "V", "W", "X", "Y", "Z",
       "a", "b", "c", "d", "e", "f", "g", "h", "i", "j", "k", "l", "m",
       "n", "o", "p", "q", "r", "s", "t", "u", "v", "w", "x", "y", "z" >>

Ord(ch) == CHOOSE i \in 1..Len(Alphabet) : Alphabet[i] = ch

\* The places of "A".."Z" in Alphabet; "a".."z" follow them.
UpperCase == {i \in 1..Len(Alphabet) : Alphabet[i] \in
                {"A", "B", "C", "D", "E", "F", "G", "H", "I", "J", "K", "L", "M",
                 "N", "O", "P", "Q", "R", "S", "T", "U", "V", "W", "X", "Y", "Z"}}

Digits == << "0", "1", "2", "3", "4", "5", "6", "7", "8", "9" >>

IsDigit(ch) == \E i \in 1..10 : Digits[i] = ch

DigitVal(ch) == (CHOOSE i \in 1..10 : Digits[i] = ch) - 1

Min(a, b) == IF a < b THEN a ELSE b

\* s[from:] of Go, from counted from 0; the caller checks from <= len(s).
SliceFrom(s, from) == SubSeq(s, from + 1, Len(s))

\* strings.Contains(s, substr)
Contains(s, substr) ==
    \E i \in 0..(Len(s) - Len(substr)) : SubSeq(s, i + 1, i + Len(substr)) = substr

\* Simple case folding of one character (unicode.SimpleFold on ASCII letters).
Lower(ch) ==
    IF Ord(ch) \in UpperCase THEN Alphabet[Ord(ch) + Cardinality(UpperCase)] ELSE ch

\* strings.EqualFold(s, t)
EqualFold(s, t) ==
    /\ Len(s) = Len(t)
    /\ \A i \in 1..Len(s) : Lower(s[i]) = Lower(t[i])

\* Ordinal comparison s < t of two strings.
RECURSIVE StrLess(_, _)
StrLess(s, t) ==
    IF t = << >> THEN FALSE
    ELSE IF s = << >> THEN TRUE
    ELSE IF s[1] # t[1] THEN Ord(s[1]) < Ord(t[1])
    ELSE StrLess(Tail(s), Tail(t))

\* The digits of a string read as a decimal number (the loop of strconv.Atoi).
RECURSIVE DecimalValue(_, _)
DecimalValue(s, n) ==
    IF s = << >> THEN n ELSE DecimalValue(Tail(s), n * 10 + DigitVal(s[1]))

\* strconv.Atoi(s) for a non-empty s shorter than 19 characters (the fast
\* path): an optional sign, then digits only.  A syntax error returns 0.
Atoi(s) ==
    LET signed == s[1] \in {"-", "+"}
        body == IF signed THEN Tail(s) ELSE s
    IN  IF body = << >> \/ \E i \in 1..Len(body) : ~IsDigit(body[i])
        THEN [val |-> 0, err |-> TRUE]
        ELSE [val |-> IF s[1] = "-" THEN 0 - DecimalValue(body, 0)
                      ELSE DecimalValue(body, 0),
              err |-> FALSE]

\* strconv.ParseBool(str)
ParseBool(str) ==
    IF str \in {"1", "t", "T", "TRUE", "true", "True"} THEN [val |-> TRUE, err |-> FALSE]
    ELSE IF str \in {"0", "f", "F", "FALSE", "false", "False"} THEN [val |-> FALSE, err |-> FALSE]
    ELSE [val |-> FALSE, err |-> TRUE]


(***************************************************************************)
(* The response writer of one request (gin.Context and its                 *)
(* ResponseWriter): the status, whether the header has been written, the   *)
(* JSON objects written to the body in order, and the abort flag.          *)
(***************************************************************************)
NewWriter ==
    [status |-> StatusOK, written |-> FALSE, body |-> << >>, aborted |-> FALSE,
     errors |-> << >>]

\* ResponseWriter.WriteHeader: once the header is written the status stays.
WriteHeader(wr, code) ==
    IF wr.status # code /\ ~wr.written THEN [wr EXCEPT !.status = code] ELSE wr

\* c.JSON(code, obj): sets the status if still possible, appends obj to the body.
JSON(wr, code, obj) ==
    [WriteHeader(wr, code) EXCEPT !.written = TRUE, !.body = Append(@, obj)]

\* Variant: the handler chain is aborted and the error recorded, but the
\* status is not set (c.Abort and c.Error in place of c.AbortWithError).
AbortWithError_NoStatus(wr, code, err) ==
    [wr EXCEPT !.written = TRUE, !.aborted = TRUE, !.errors = Append(@, err)]

\* c.AbortWithError(code, err): sets the status if still possible, writes the
\* header with no body, aborts the handler chain and records err in c.Errors.
AbortWithError(wr, code, err) ==
    [WriteHeader(wr, code) EXCEPT !.written = TRUE, !.aborted = TRUE,
                                  !.errors = Append(@, err)]

\* gin.Default() installs the Recovery middleware: a panic in a handler ends
\* the request with AbortWithStatus(500).
Recovery(wr) == [WriteHeader(wr, StatusInternalServerError) EXCEPT !.written = TRUE, !.aborted = TRUE]

\* gin.H{"error": msg}
ErrorObj(msg) == [kind |-> "error", error |-> msg]

\* ClusterResult, HelmReleaseResult, ResourceResult and the gin.H of
\* getClusterStatus: a total and the window of rows.
ResultObj(total, rows) == [kind |-> "result", total |-> total, rows |-> rows]

(***************************************************************************)
(* The environment: the identity provider, the permission system and the   *)
(* inventory held by the manager.                                          *)
(***************************************************************************)
ClusterTypeCapi == << "C", "a", "p", "i" >>
ClusterTypeSveltos == << "S", "v", "e", "l", "t", "o", "s" >>

BearerPrefix == << "B", "e", "a", "r", "e", "r", " " >>

tokAlice == << "t", "1" >>
tokBob == << "t", "2" >>
tokNoName == << "t", "0" >>
tokUnknown == << "z", "z" >>

\* The tokens the identity provider accepts and the username its
\* SelfSubjectReview reports for each; for one token it reports none.
ValidTokens == {tokAlice, tokBob, tokNoName}

Username(token) == IF token = tokAlice THEN "alice" ELSE IF token = tokBob THEN "bob" ELSE ""

nsProd == << "p", "r", "o", "d" >>
nsStag == << "s", "t", "a", "g" >>
nsDev == << "d", "e", "v" >>
nmC1 == << "c", "1" >>
nmC2 == << "c", "2" >>
nmS2 == << "s", "2" >>

lblEnvProd == << "env", "prod" >>
lblEnvDev == << "env", "dev" >>
lblTierWeb == << "tier", "web" >>

Key(ns, nm) == [namespace |-> ns, name |-> nm]

\* The manager's inventory of each cluster kind: ObjectReference -> ClusterInfo.
CapiInventory ==
    (Key(nsProd, nmC1) :> [labels |-> {lblEnvProd, lblTierWeb}])
    @@ (Key(nsProd, nmC2) :> [labels |-> {lblEnvDev}])
    @@ (Key(nsStag, nmC1) :> [labels |-> {lblEnvProd}])

SveltosInventory ==
    (Key(nsProd, nmC1) :> [labels |-> {lblEnvProd}])
    @@ (Key(nsDev, nmS2) :> [labels |-> {}])

Inventory(kind) == IF kind = ClusterTypeCapi THEN CapiInventory ELSE SveltosInventory

\* The maps the manager holds, one per cluster kind.  A Go map is handed out
\* by reference: what a handler did to the map it was given would show here.
VARIABLE inventory

InitialInventory == [kind \in {ClusterTypeCapi, ClusterTypeSveltos} |-> Inventory(kind)]

\* The role bindings of the permission system: alice is a cluster admin, bob
\* may get two clusters and list nothing, nobody else may do anything.
BobClusters == { << ClusterTypeCapi, nsProd, nmC1 >>, << ClusterTypeSveltos, nsDev, nmS2 >> }

AllowedList(user, kind) == user = "alice"

AllowedGet(user, kind, ns, nm) ==
    \/ user = "alice"
    \/ user = "bob" /\ << kind, ns, nm >> \in BobClusters


(***************************************************************************)
(* Query-parameter parsers.  Each takes the response writer and the query  *)
(* and returns its results together with the writer it leaves behind.      *)
(***************************************************************************)
\* Variant: a limit that does not parse does not end the function; skip is
\* parsed all the same.
getLimitAndSkipFromQuery_ParseBoth(wr, q) ==
    LET l == IF q.limit # << >> THEN Atoi(q.limit) ELSE [val |-> maxItems, err |-> FALSE]
        k == IF q.skip # << >> THEN Atoi(q.skip) ELSE [val |-> 0, err |-> FALSE]
    IN  IF l.err
        THEN [limit |-> l.val, skip |-> k.val,
              w |-> JSON(wr, StatusBadRequest, ErrorObj("invalid limit parameter"))]
        ELSE IF k.err
        THEN [limit |-> l.val, skip |-> k.val,
              w |-> JSON(wr, StatusBadRequest, ErrorObj("invalid skip parameter"))]
        ELSE [limit |-> l.val, skip |-> k.val, w |-> wr]

getLimitAndSkipFromQuery(wr, q) ==
    LET l == IF q.limit # << >> THEN Atoi(q.limit) ELSE [val |-> maxItems, err |-> FALSE]
        k == IF q.skip # << >> THEN Atoi(q.skip) ELSE [val |-> 0, err |-> FALSE]
    IN  IF l.err
        THEN [limit |-> l.val, skip |-> 0,
              w |-> JSON(wr, StatusBadRequest, ErrorObj("invalid limit parameter"))]
        ELSE IF k.err
        THEN [limit |-> l.val, skip |-> k.val,
              w |-> JSON(wr, StatusBadRequest, ErrorObj("invalid skip parameter"))]
        ELSE [limit |-> l.val, skip |-> k.val, w |-> wr]

getFailedOnlyFromQuery(wr, q) ==
    LET b == IF q.failed # "" THEN ParseBool(q.failed) ELSE [val |-> FALSE, err |-> FALSE]
    IN  IF b.err
        THEN [failedOnly |-> b.val,
              w |-> JSON(wr, StatusBadRequest, ErrorObj("invalid failed parameter"))]
        ELSE [failedOnly |-> b.val, w |-> wr]

\* On an error the zero values (three empty strings) are returned.
getClusterFromQuery(wr, q) ==
    LET bad(msg) == [namespace |-> << >>, name |-> << >>, clusterType |-> << >>,
                     w |-> JSON(wr, StatusBadRequest, ErrorObj(msg))]
    IN  IF q.namespace = << >> THEN bad("namespace is required")
        ELSE IF q.name = << >> THEN bad("name is required")
        ELSE IF q.type = << >> THEN bad("cluster type is required")
        ELSE IF EqualFold(q.type, ClusterTypeSveltos)
        THEN [namespace |-> q.namespace, name |-> q.name,
              clusterType |-> ClusterTypeSveltos, w |-> wr]
        ELSE IF EqualFold(q.type, ClusterTypeCapi)
        THEN [namespace |-> q.namespace, name |-> q.name,
              clusterType |-> ClusterTypeCapi, w |-> wr]
        ELSE bad("cluster type is incorrect")

\* labels.Parse on the selector expressions the model sends.
ParseSelector(str) ==
    CASE str = "env=prod" -> [sel |-> {lblEnvProd}, err |-> FALSE]
      [] str = "env=prod,tier=web" -> [sel |-> {lblEnvProd, lblTierWeb}, err |-> FALSE]
      [] OTHER -> [sel |-> {}, err |-> TRUE]

\* The namespace and name substrings and the label selector of a listing
\* request; an unparsable selector is an error.
getClusterFiltersFromQuery(q) ==
    LET p == IF q.labels # "" THEN ParseSelector(q.labels) ELSE [sel |-> {}, err |-> FALSE]
    IN  [filters |-> [Namespace |-> q.namespace, name |-> q.name, labelSelector |-> p.sel],
         err |-> p.err]

(***************************************************************************)
(* Authentication.                                                         *)
(***************************************************************************)
\* authorizationHeader[len("Bearer "):] panics on a header shorter than the
\* prefix; the prefix itself is never compared.
getTokenFromAuthorizationHeader(wr, header) ==
    IF header = << >>
    THEN [token |-> << >>, err |-> TRUE, panic |-> FALSE,
          w |-> JSON(wr, StatusUnauthorized, ErrorObj("authorization header is missing"))]
    ELSE IF Len(header) < Len(BearerPrefix)
    THEN [token |-> << >>, err |-> FALSE, panic |-> TRUE, w |-> wr]
    ELSE IF SliceFrom(header, Len(BearerPrefix)) = << >>
    THEN [token |-> << >>, err |-> TRUE, panic |-> FALSE,
          w |-> JSON(wr, StatusUnauthorized, ErrorObj("token is missing"))]
    ELSE [token |-> SliceFrom(header, Len(BearerPrefix)), err |-> FALSE, panic |-> FALSE,
          w |-> wr]

\* manager.validateToken(token): the outcomes of the identity provider's
\* check of the token; the call itself may fail for any token.
managerValidateToken(token) ==
    {[err |-> TRUE]} \cup (IF token \in ValidTokens THEN {[err |-> FALSE]} ELSE {})

\* manager.getUserFromToken(token): the rest config, the client or the
\* SelfSubjectReview may fail; otherwise the review's username.
getUserFromToken(token) ==
    {[user |-> "", err |-> TRUE], [user |-> Username(token), err |-> FALSE]}

(***************************************************************************)
(* Permission checks: each returns the SubjectAccessReview it issues and   *)
(* the possible results (false, err) and (Status.Allowed, nil).            *)
(***************************************************************************)
Review(verb, resource, ns, nm, user) ==
    [verb |-> verb, resource |-> resource, namespace |-> ns, name |-> nm, user |-> user]

canListSveltosClusters(user) ==
    [sar |-> Review("list", ClusterTypeSveltos, << >>, << >>, user),
     results |-> {[allowed |-> FALSE, err |-> TRUE],
                  [allowed |-> AllowedList(user, ClusterTypeSveltos), err |-> FALSE]}]

canGetSveltosCluster(clusterNamespace, clusterName, user) ==
    [sar |-> Review("get", ClusterTypeSveltos, clusterNamespace, clusterName, user),
     results |-> {[allowed |-> FALSE, err |-> TRUE],
                  [allowed |-> AllowedGet(user, ClusterTypeSveltos, clusterNamespace, clusterName),
                   err |-> FALSE]}]

\* Variant: the verdict of the review is ignored and the list is allowed.
canListCAPIClusters_IgnoreVerdict(user) ==
    [sar |-> Review("list", ClusterTypeCapi, << >>, << >>, user),
     results |-> {[allowed |-> FALSE, err |-> TRUE], [allowed |-> TRUE, err |-> FALSE]}]

canListCAPIClusters(user) ==
    [sar |-> Review("list", ClusterTypeCapi, << >>, << >>, user),
     results |-> {[allowed |-> FALSE, err |-> TRUE],
                  [allowed |-> AllowedList(user, ClusterTypeCapi), err |-> FALSE]}]

canGetCAPICluster(clusterNamespace, clusterName, user) ==
    [sar |-> Review("get", ClusterTypeCapi, clusterNamespace, clusterName, user),
     results |-> {[allowed |-> FALSE, err |-> TRUE],
                  [allowed |-> AllowedGet(user, ClusterTypeCapi, clusterNamespace, clusterName),
                   err |-> FALSE]}]

canGetCluster(clusterNamespace, clusterName, user, clusterType) ==
    IF clusterType = ClusterTypeCapi
    THEN canGetCAPICluster(clusterNamespace, clusterName, user)
    ELSE canGetSveltosCluster(clusterNamespace, clusterName, user)


(***************************************************************************)
(* The inventory manager's queries.  Each returns the set of results the   *)
(* call can have: an error, or the data.                                   *)
(***************************************************************************)
Restrict(f, S) == [k \in S |-> f[k]]

\* GetManagedCAPIClusters / GetManagedSveltosClusters(ctx, canListAll, user):
\* every cluster of the kind for a caller who may list them all, otherwise
\* the clusters the caller may get.
GetManagedClusters(kind, canListAll, user) ==
    LET inv == inventory[kind]
        visible == IF canListAll THEN DOMAIN inv
                   ELSE {k \in DOMAIN inv : AllowedGet(user, kind, k.namespace, k.name)}
    IN  {[clusters |-> << >>, err |-> TRUE],
         [clusters |-> Restrict(inv, visible), err |-> FALSE]}

relA == << "a" >>
relB == << "b" >>
grpApps == << "a", "p", "p", "s" >>
grpCore == << >>
kndDeploy == << "D" >>
kndService == << "S" >>
prfOne == << "p", "1" >>
prfTwo == << "p", "2" >>
featHelm == << "H", "e", "l", "m" >>
featRes == << "R", "e", "s" >>

Release(ns, nm) == [namespace |-> ns, releaseName |-> nm]

verOne == << "v", "1" >>
verTwo == << "v", "2" >>

\* ResourceInfo: the identifiers the rows are sorted by, and the version.
Resource(g, k, ns, nm, v) ==
    [group |-> g, kind |-> k, namespace |-> ns, name |-> nm, version |-> v]

\* The Helm releases the manager holds for a cluster, in the manager's order.
HelmChartsOf(kind, ns, nm) ==
    IF << kind, ns, nm >> = << ClusterTypeCapi, nsProd, nmC1 >>
    THEN << Release(nsStag, relA), Release(nsProd, relB), Release(nsProd, relA) >>
    ELSE IF << kind, ns, nm >> = << ClusterTypeSveltos, nsProd, nmC1 >>
    THEN << Release(nsDev, relB) >>
    ELSE << >>

\* The resources the manager holds for a cluster, in the manager's order.
\* Two of them differ in the version alone.
ResourcesOf(kind, ns, nm) ==
    IF << kind, ns, nm >> = << ClusterTypeCapi, nsProd, nmC1 >>
    THEN << Resource(grpApps, kndDeploy, nsProd, relB, verTwo),
            Resource(grpCore, kndService, nsProd, relA, verOne),
            Resource(grpApps, kndDeploy, nsDev, relB, verOne),
            Resource(grpApps, kndDeploy, nsProd, relB, verOne) >>
    ELSE IF << kind, ns, nm >> = << ClusterTypeSveltos, nsProd, nmC1 >>
    THEN << Resource(grpCore, kndService, nsDev, relA, verOne) >>
    ELSE << >>

Feature(id, failed) == [featureID |-> id, failed |-> failed]

\* The profile statuses the manager holds for a cluster: one per profile,
\* each with its per-feature statuses.
ProfileStatusesOf(kind, ns, nm) ==
    IF << kind, ns, nm >> = << ClusterTypeCapi, nsProd, nmC1 >>
    THEN << [profileName |-> prfTwo, clusterNamespace |-> ns, clusterName |-> nm,
             features |-> << Feature(featRes, TRUE), Feature(featHelm, FALSE) >>],
            [profileName |-> prfOne, clusterNamespace |-> ns, clusterName |-> nm,
             features |-> << Feature(featRes, FALSE), Feature(featHelm, TRUE) >>] >>
    ELSE IF << kind, ns, nm >> = << ClusterTypeSveltos, nsProd, nmC1 >>
    THEN << [profileName |-> prfOne, clusterNamespace |-> ns, clusterName |-> nm,
             features |-> << Feature(featHelm, FALSE) >>] >>
    ELSE << >>

getHelmChartsForCluster(ns, nm, kind) ==
    {[list |-> << >>, err |-> TRUE], [list |-> HelmChartsOf(kind, ns, nm), err |-> FALSE]}

getResourcesForCluster(ns, nm, kind) ==
    {[list |-> << >>, err |-> TRUE], [list |-> ResourcesOf(kind, ns, nm), err |-> FALSE]}

GetClusterProfileStatusesByCluster(ns, nm, kind) == ProfileStatusesOf(kind, ns, nm)

(***************************************************************************)
(* Filtering, flattening, sorting and windowing.                           *)
(***************************************************************************)
\* labels.Selector.Matches: every requirement of the selector is met.
SelectorMatches(selector, labelSet) == \A r \in selector : r \in labelSet

\* The enumerations of a finite set: the orders a Go map can be ranged in.
Orders(S) ==
    {o \in [1..Cardinality(S) -> S] : \A i, j \in 1..Cardinality(S) : i # j => o[i] # o[j]}

\* Variant: the namespace filter must match the start of the namespace
\* (strings.HasPrefix in place of strings.Contains).
getManagedClusterData_Prefix(clusters, filters, order) ==
    LET keep(k) ==
            /\ filters.Namespace # << >> =>
                   /\ Len(filters.Namespace) <= Len(k.namespace)
                   /\ SubSeq(k.namespace, 1, Len(filters.Namespace)) = filters.Namespace
            /\ filters.name # << >> => Contains(k.name, filters.name)
            /\ filters.labelSelector # {} =>
                   SelectorMatches(filters.labelSelector, clusters[k].labels)
        kept == SelectSeq(order, keep)
    IN  [i \in 1..Len(kept) |->
            [namespace |-> kept[i].namespace, name |-> kept[i].name,
             clusterInfo |-> clusters[kept[i]]]]

\* getManagedClusterData(clusters, filters), ranging over the map in `order`.
getManagedClusterData(clusters, filters, order) ==
    LET keep(k) ==
            /\ filters.Namespace # << >> => Contains(k.namespace, filters.Namespace)
            /\ filters.name # << >> => Contains(k.name, filters.name)
            /\ filters.labelSelector # {} =>
                   SelectorMatches(filters.labelSelector, clusters[k].labels)
        kept == SelectSeq(order, keep)
    IN  [i \in 1..Len(kept) |->
            [namespace |-> kept[i].namespace, name |-> kept[i].name,
             clusterInfo |-> clusters[kept[i]]]]

\* One row per per-feature status of one profile status.
FeatureRows(ps, failedOnly) ==
    LET kept == SelectSeq(ps.features, LAMBDA f : failedOnly => f.failed)
    IN  [i \in 1..Len(kept) |->
            [profileName |-> ps.profileName, clusterNamespace |-> ps.clusterNamespace,
             clusterName |-> ps.clusterName, featureID |-> kept[i].featureID,
             failed |-> kept[i].failed]]

RECURSIVE flattenProfileStatuses(_, _)
flattenProfileStatuses(statuses, failedOnly) ==
    IF statuses = << >> THEN << >>
    ELSE FeatureRows(Head(statuses), failedOnly)
             \o flattenProfileStatuses(Tail(statuses), failedOnly)

\* Lexicographic comparison of two key tuples of strings.
RECURSIVE KeyLess(_, _)
KeyLess(a, b) ==
    IF a = << >> THEN FALSE
    ELSE IF a[1] # b[1] THEN StrLess(a[1], b[1])
    ELSE KeyLess(Tail(a), Tail(b))

\* ManagedClusters.Less: namespace, then name.
ClusterLess(a, b) == KeyLess(<< a.namespace, a.name >>, << b.namespace, b.name >>)

\* sortHelmCharts: namespace, then release name.
HelmLess(a, b) == KeyLess(<< a.namespace, a.releaseName >>, << b.namespace, b.releaseName >>)

\* sortResources: group, kind, namespace, name.
ResourceLess(a, b) ==
    KeyLess(<< a.group, a.kind, a.namespace, a.name >>,
            << b.group, b.kind, b.namespace, b.name >>)

\* sortClusterProfileStatus: profile name, cluster identity, feature.
StatusLess(a, b) ==
    KeyLess(<< a.profileName, a.clusterNamespace, a.clusterName, a.featureID >>,
            << b.profileName, b.clusterNamespace, b.clusterName, b.featureID >>)

\* The comparator a handler sorts with, by the name of its function.
Less(cmp, a, b) ==
    CASE cmp = "ManagedClusters.Less" -> ClusterLess(a, b)
      [] cmp = "sortHelmCharts" -> HelmLess(a, b)
      [] cmp = "sortResources" -> ResourceLess(a, b)
      [] cmp = "sortClusterProfileStatus" -> StatusLess(a, b)

\* Variant: the element is moved down past every element that is not less
\* than it (the test is !less(data[j-1], data[j])).
RECURSIVE insertionSortStep_PastEqual(_, _, _)
insertionSortStep_PastEqual(t, x, cmp) ==
    IF t = << >> \/ Less(cmp, t[Len(t)], x) THEN Append(t, x)
    ELSE Append(insertionSortStep_PastEqual(SubSeq(t, 1, Len(t) - 1), x, cmp), t[Len(t)])

\* The inner loop of the sort package's insertion sort: x, placed after the
\* sorted t, is swapped down while it is less than the element before it.
RECURSIVE insertionSortStep(_, _, _)
insertionSortStep(t, x, cmp) ==
    IF t = << >> \/ ~Less(cmp, x, t[Len(t)]) THEN Append(t, x)
    ELSE Append(insertionSortStep(SubSeq(t, 1, Len(t) - 1), x, cmp), t[Len(t)])

\* The sort package's insertion sort of s.
RECURSIVE insertionSort(_, _)
insertionSort(s, cmp) ==
    IF s = << >> THEN << >>
    ELSE insertionSortStep(insertionSort(SubSeq(s, 1, Len(s) - 1), cmp), s[Len(s)], cmp)

\* sort.Sort / sort.Slice: the results the sort can leave.  The sort is not
\* stable in general; a slice of at most 12 elements, as every slice of the
\* model is, is sorted by insertion.
Sorted(s, cmp) == {insertionSort(s, cmp)}

\* getClustersInRange, getHelmReleaseInRange, getResourcesInRange and
\* getFlattenedProfileStatusesInRange: the window [skip, min(skip+limit, len)).
getSliceInRange(items, limit, skip) ==
    IF skip < 0 \/ limit < 0 THEN [items |-> << >>, err |-> TRUE]
    ELSE IF skip >= Len(items) THEN [items |-> << >>, err |-> FALSE]
    ELSE [items |-> SubSeq(items, skip + 1, Min(skip + limit, Len(items))), err |-> FALSE]


(***************************************************************************)
(* The requests the model sends.                                           *)
(***************************************************************************)
Itoa(n) == << Digits[n + 1] >>

\* Values of the limit and skip parameters: absent, 0..MaxParam, a negative
\* number, and something that is not a number.
ParamStrs == {<< >>, << "-", "1" >>, << "x" >>} \cup {Itoa(n) : n \in 0..MaxParam}

\* Authorization headers: absent, three valid bearer tokens, an unknown
\* token, an empty token, a header shorter than the prefix, another scheme.
Headers ==
    { << >>,
      BearerPrefix \o tokAlice,
      BearerPrefix \o tokBob,
      BearerPrefix \o tokNoName,
      BearerPrefix \o tokUnknown,
      BearerPrefix,
      << "B", "a", "s", "i", "c" >>,
      << "B", "a", "s", "i", "c", " ", "x" >> \o tokAlice }

ListEndpoints == {"capiclusters", "sveltosclusters"}

ListRequests ==
    [endpoint : ListEndpoints, header : Headers, limit : ParamStrs, skip : ParamStrs,
     namespace : {<< >>, << "r", "o" >>, << "P" >>}, name : {<< >>, << "1" >>},
     labels : {"", "env=prod", "env=prod,tier=web", "env in"}, type : {<< >>}, failed : {""}]

TypeStrs == {<< >>, << "c", "a", "p", "i" >>, << "S", "V", "E", "L", "T", "O", "S" >>, << "k", "8", "s" >>}

ClusterRequests(endpoint, failedStrs) ==
    [endpoint : {endpoint}, header : Headers, limit : ParamStrs, skip : ParamStrs,
     namespace : {<< >>, nsProd}, name : {<< >>, nmC1},
     labels : {""}, type : TypeStrs, failed : failedStrs]

NoRequest ==
    [endpoint |-> "", header |-> << >>, limit |-> << >>, skip |-> << >>, namespace |-> << >>,
     name |-> << >>, labels |-> "", type |-> << >>, failed |-> ""]

(***************************************************************************)
(* State: the handler's position, the request, the response writer, the    *)
(* outbound calls made for the request, and the handler's local variables. *)
(***************************************************************************)
VARIABLES pc, req, w, calls, loc, reqCtx

\* The process: where instance.start and its listener goroutine are, whether
\* start's context is canceled, the port start was given, the error r.Run
\* returned, whether SIGTERM was sent, and the lines logged.
VARIABLES startPc, listenerPc, ctxDone, port, runErr, sigterm, logged

request == << pc, req, w, calls, loc, reqCtx >>

process == << startPc, listenerPc, ctxDone, port, runErr, sigterm, logged >>

vars == << pc, req, w, calls, loc, reqCtx, startPc, listenerPc, ctxDone, port, runErr,
           sigterm, logged, inventory >>

\* c.Request.Context() of the request in flight: whether it is canceled, and
\* how many outbound calls had been made and what had been written when it
\* was.
LiveContext == [canceled |-> FALSE, calls |-> 0, w |-> NewWriter]

\* The ports start can be given, and the errors r.Run can return.
Ports == {":8080", ":9000", "localhost:80"}

RunErrors ==
    {"address already in use", "too many open files", "permission denied", "server closed"}

ZeroLocals ==
    [limit |-> 0, skip |-> 0, failedOnly |-> FALSE,
     namespace |-> << >>, name |-> << >>, clusterType |-> << >>,
     filters |-> [Namespace |-> << >>, name |-> << >>, labelSelector |-> {}],
     user |-> "", canListAll |-> FALSE, canGetCluster |-> FALSE,
     review |-> [made |-> FALSE, allowed |-> FALSE, err |-> FALSE],
     fetched |-> << >>, unsorted |-> << >>, data |-> << >>, result |-> << >>]

\* An outbound call: to the identity provider, the permission system or the
\* inventory manager.
Call(stage, op, user, kind, ns, nm, canListAll) ==
    [stage |-> stage, op |-> op, user |-> user, kind |-> kind, namespace |-> ns,
     name |-> nm, canListAll |-> canListAll]

IdentityCall(op) == Call("identity", op, "", << >>, << >>, << >>, FALSE)

PermissionCall(op, sar) ==
    Call("permission", op, sar.user, sar.resource, sar.namespace, sar.name, FALSE)

\* No request in flight.
NoRequestInFlight ==
    /\ pc = "idle"
    /\ req = NoRequest
    /\ w = NewWriter
    /\ calls = << >>
    /\ loc = ZeroLocals
    /\ reqCtx = LiveContext
    /\ inventory = InitialInventory

\* The server is up: start has registered the routes and waits in its
\* select, the listener goroutine is in r.Run.
Init ==
    /\ NoRequestInFlight
    /\ startPc = "select"
    /\ listenerPc = "run"
    /\ ctxDone = FALSE
    /\ port = ":8080"
    /\ runErr = ""
    /\ sigterm = FALSE
    /\ logged = << >>

KindOf(endpoint) == IF endpoint = "capiclusters" THEN ClusterTypeCapi ELSE ClusterTypeSveltos


(***************************************************************************)
(* The handlers.  A handler that returns leaves pc = "done"; the server    *)
(* then takes the next request with a fresh writer and fresh locals.       *)
(***************************************************************************)
Ready == pc = "idle" /\ listenerPc = "run"

\* getManagedCAPIClusters / getManagedSveltosClusters: limit, skip, filters.
ListClustersParse ==
    /\ UNCHANGED << reqCtx, process, inventory >>
    /\ Ready
    /\ \E r \in ListRequests :
          LET ls == getLimitAndSkipFromQuery(NewWriter, r)
              f == getClusterFiltersFromQuery(r)
          IN  /\ req' = r
              /\ calls' = << >>
              /\ loc' = [ZeroLocals EXCEPT !.limit = ls.limit, !.skip = ls.skip,
                                           !.filters = f.filters]
              /\ IF f.err
                 THEN w' = AbortWithError(ls.w, StatusBadRequest, "invalid label selector")
                      /\ pc' = "done"
                 ELSE w' = ls.w /\ pc' = "parsed"

\* getDeployedHelmCharts: the cluster, then limit and skip.
HelmChartsParse ==
    /\ UNCHANGED << reqCtx, process, inventory >>
    /\ Ready
    /\ \E r \in ClusterRequests("helmcharts", {""}) :
          LET c == getClusterFromQuery(NewWriter, r)
              ls == getLimitAndSkipFromQuery(c.w, r)
          IN  /\ req' = r
              /\ calls' = << >>
              /\ loc' = [ZeroLocals EXCEPT !.limit = ls.limit, !.skip = ls.skip,
                                           !.namespace = c.namespace, !.name = c.name,
                                           !.clusterType = c.clusterType]
              /\ w' = ls.w
              /\ pc' = "parsed"

\* getDeployedResources: limit and skip, then the cluster.
ResourcesParse ==
    /\ UNCHANGED << reqCtx, process, inventory >>
    /\ Ready
    /\ \E r \in ClusterRequests("resources", {""}) :
          LET ls == getLimitAndSkipFromQuery(NewWriter, r)
              c == getClusterFromQuery(ls.w, r)
          IN  /\ req' = r
              /\ calls' = << >>
              /\ loc' = [ZeroLocals EXCEPT !.limit = ls.limit, !.skip = ls.skip,
                                           !.namespace = c.namespace, !.name = c.name,
                                           !.clusterType = c.clusterType]
              /\ w' = c.w
              /\ pc' = "parsed"

\* getClusterStatus: failed, limit and skip, then the cluster.
ClusterStatusParse ==
    /\ UNCHANGED << reqCtx, process, inventory >>
    /\ Ready
    /\ \E r \in ClusterRequests("getClusterStatus", {"", "true", "yes"}) :
          LET fo == getFailedOnlyFromQuery(NewWriter, r)
              ls == getLimitAndSkipFromQuery(fo.w, r)
              c == getClusterFromQuery(ls.w, r)
          IN  /\ req' = r
              /\ calls' = << >>
              /\ loc' = [ZeroLocals EXCEPT !.failedOnly = fo.failedOnly,
                                           !.limit = ls.limit, !.skip = ls.skip,
                                           !.namespace = c.namespace, !.name = c.name,
                                           !.clusterType = c.clusterType]
              /\ w' = c.w
              /\ pc' = "parsed"

\* validateToken(c) and the handler's return on its error.  The handler's
\* own AbortWithError(401) repeats validateToken's and changes nothing.
validateToken ==
    /\ UNCHANGED << reqCtx, process, inventory >>
    /\ pc = "parsed"
    /\ UNCHANGED req
    /\ LET t == getTokenFromAuthorizationHeader(w, req.header)
           abort(wr, msg, err) ==
               AbortWithError(AbortWithError(wr, StatusUnauthorized, msg),
                              StatusUnauthorized, err)
       IN  IF t.panic
           THEN w' = Recovery(t.w) /\ pc' = "done" /\ UNCHANGED << calls, loc >>
           ELSE IF t.err
           THEN /\ w' = abort(t.w, "failed to get token from authorization request",
                              t.w.body[Len(t.w.body)].error)
                /\ pc' = "done"
                /\ UNCHANGED << calls, loc >>
           ELSE \E v \in managerValidateToken(t.token) :
                   IF v.err
                   THEN /\ calls' = Append(calls, IdentityCall("validateToken"))
                        /\ w' = abort(t.w, "failed to validate token", "identity provider error")
                        /\ pc' = "done"
                        /\ UNCHANGED loc
                   ELSE \E u \in getUserFromToken(t.token) :
                           /\ calls' = calls \o << IdentityCall("validateToken"),
                                                   IdentityCall("getUserFromToken") >>
                           /\ IF u.err
                              THEN /\ w' = abort(t.w, "failed to get user from token",
                                                 "identity provider error")
                                   /\ pc' = "done"
                                   /\ UNCHANGED loc
                              ELSE /\ w' = t.w
                                   /\ pc' = "authenticated"
                                   /\ loc' = [loc EXCEPT !.user = u.user]

\* What the permission operation returned to the handler.
Reviewed(r) == [made |-> TRUE, allowed |-> r.allowed, err |-> r.err]

\* Variant: the error of the list check is dropped and the verdict it came
\* with is used (canListAll, _ := manager.canListCAPIClusters(user)).
ListClustersAuthorize_ErrorAsDeny ==
    /\ UNCHANGED << reqCtx, process, inventory >>
    /\ pc = "authenticated"
    /\ req.endpoint \in ListEndpoints
    /\ UNCHANGED << req, w >>
    /\ LET capi == req.endpoint = "capiclusters"
           chk == IF capi THEN canListCAPIClusters(loc.user)
                  ELSE canListSveltosClusters(loc.user)
           op == IF capi THEN "canListCAPIClusters" ELSE "canListSveltosClusters"
       IN  \E r \in chk.results :
              /\ calls' = Append(calls, PermissionCall(op, chk.sar))
              /\ pc' = "authorized"
              /\ loc' = [loc EXCEPT !.canListAll = r.allowed, !.review = Reviewed(r)]

\* canListCAPIClusters / canListSveltosClusters and the handler's return on
\* an error.
ListClustersAuthorize ==
    /\ UNCHANGED << reqCtx, process, inventory >>
    /\ pc = "authenticated"
    /\ req.endpoint \in ListEndpoints
    /\ UNCHANGED req
    /\ LET capi == req.endpoint = "capiclusters"
           chk == IF capi THEN canListCAPIClusters(loc.user)
                  ELSE canListSveltosClusters(loc.user)
           op == IF capi THEN "canListCAPIClusters" ELSE "canListSveltosClusters"
       IN  \E r \in chk.results :
              /\ calls' = Append(calls, PermissionCall(op, chk.sar))
              /\ IF r.err
                 THEN w' = AbortWithError(w, StatusUnauthorized, "permission system error")
                      /\ pc' = "done"
                      /\ loc' = [loc EXCEPT !.review = Reviewed(r)]
                 ELSE w' = w /\ pc' = "authorized"
                      /\ loc' = [loc EXCEPT !.canListAll = r.allowed,
                                            !.review = Reviewed(r)]

\* canGetCluster and the handler's return on an error or a deny.
ClusterAuthorize ==
    /\ UNCHANGED << reqCtx, process, inventory >>
    /\ pc = "authenticated"
    /\ req.endpoint \notin ListEndpoints
    /\ UNCHANGED req
    /\ LET chk == canGetCluster(loc.namespace, loc.name, loc.user, loc.clusterType)
       IN  \E r \in chk.results :
              /\ calls' = Append(calls, PermissionCall("canGetCluster", chk.sar))
              /\ IF r.err
                 THEN w' = AbortWithError(w, StatusUnauthorized, "permission system error")
                      /\ pc' = "done"
                      /\ loc' = [loc EXCEPT !.review = Reviewed(r)]
                 ELSE IF ~r.allowed
                 THEN w' = AbortWithError(w, StatusUnauthorized,
                                          "no permissions to access this cluster")
                      /\ pc' = "done"
                      /\ loc' = [loc EXCEPT !.review = Reviewed(r)]
                 ELSE w' = w /\ pc' = "authorized"
                      /\ loc' = [loc EXCEPT !.canGetCluster = r.allowed,
                                            !.review = Reviewed(r)]


InventoryCall(op, kind, ns, nm, canListAll) ==
    Call("inventory", op, loc.user, kind, ns, nm, canListAll)

\* Variant: the total is the length of the window.
ClusterResult_WindowLength(managedClusterData, result) == ResultObj(Len(result), result)

\* ClusterResult{TotalClusters: len(managedClusterData), ManagedClusters: result}
ClusterResult(managedClusterData, result) == ResultObj(Len(managedClusterData), result)

\* HelmReleaseResult{TotalHelmReleases: len(helmCharts), HelmReleases: result}
HelmReleaseResult(helmCharts, result) == ResultObj(Len(helmCharts), result)

\* ResourceResult{TotalResources: len(resources), Resources: result}
ResourceResult(resources, result) == ResultObj(Len(resources), result)

\* gin.H{"totalResources": len(flattenedProfileStatuses), "profiles": result}
ProfileStatusResult(flattenedProfileStatuses, result) ==
    ResultObj(Len(flattenedProfileStatuses), result)

\* manager.GetManagedCAPIClusters / GetManagedSveltosClusters and the
\* handler's return on its error.
ListClustersFetch ==
    /\ UNCHANGED << reqCtx, process, inventory >>
    /\ pc = "authorized"
    /\ req.endpoint \in ListEndpoints
    /\ UNCHANGED req
    /\ LET kind == KindOf(req.endpoint)
           op == IF req.endpoint = "capiclusters" THEN "GetManagedCAPIClusters"
                 ELSE "GetManagedSveltosClusters"
       IN  \E r \in GetManagedClusters(kind, loc.canListAll, loc.user) :
              /\ calls' = Append(calls, InventoryCall(op, kind, << >>, << >>, loc.canListAll))
              /\ IF r.err
                 THEN w' = AbortWithError(w, StatusUnauthorized, "inventory error")
                      /\ pc' = "done"
                      /\ UNCHANGED loc
                 ELSE w' = w /\ pc' = "fetched"
                      /\ loc' = [loc EXCEPT !.fetched = r.clusters]

\* Variant: the map is filtered in place (the keys that do not pass are
\* deleted from it) before the rows are built.
ListClustersRespond_FilterInPlace ==
    /\ UNCHANGED << reqCtx, process >>
    /\ pc = "fetched"
    /\ req.endpoint \in ListEndpoints
    /\ UNCHANGED << req, calls >>
    /\ pc' = "done"
    /\ \E order \in Orders(DOMAIN loc.fetched) :
          LET unsorted == getManagedClusterData(loc.fetched, loc.filters, order)
              kept == {Key(unsorted[i].namespace, unsorted[i].name) : i \in 1..Len(unsorted)}
          IN  \E managedClusterData \in Sorted(unsorted, "ManagedClusters.Less") :
                 LET r == getSliceInRange(managedClusterData, loc.limit, loc.skip)
                 IN  /\ loc' = [loc EXCEPT !.fetched = Restrict(loc.fetched, kept),
                                           !.unsorted = unsorted,
                                           !.data = managedClusterData,
                                           !.result = r.items]
                     /\ inventory' =
                            IF loc.canListAll
                            THEN [inventory EXCEPT ![KindOf(req.endpoint)] = Restrict(@, kept)]
                            ELSE inventory
                     /\ w' = IF r.err
                             THEN AbortWithError(w, StatusBadRequest, "invalid range")
                             ELSE JSON(w, StatusOK, ClusterResult(managedClusterData, r.items))

\* Variant: the rows are windowed in the order the map was ranged in
\* (sort.Sort is left out).
ListClustersRespond_NoSort ==
    /\ UNCHANGED << reqCtx, process, inventory >>
    /\ pc = "fetched"
    /\ req.endpoint \in ListEndpoints
    /\ UNCHANGED << req, calls >>
    /\ pc' = "done"
    /\ \E order \in Orders(DOMAIN loc.fetched) :
          LET unsorted == getManagedClusterData(loc.fetched, loc.filters, order)
              r == getSliceInRange(unsorted, loc.limit, loc.skip)
          IN  /\ loc' = [loc EXCEPT !.unsorted = unsorted, !.data = unsorted,
                                    !.result = r.items]
              /\ w' = IF r.err
                      THEN AbortWithError(w, StatusBadRequest, "invalid range")
                      ELSE JSON(w, StatusOK, ClusterResult(unsorted, r.items))

\* getManagedClusterData, sort.Sort, getClustersInRange and the response.
ListClustersRespond ==
    /\ UNCHANGED << reqCtx, process, inventory >>
    /\ pc = "fetched"
    /\ req.endpoint \in ListEndpoints
    /\ UNCHANGED << req, calls >>
    /\ pc' = "done"
    /\ \E order \in Orders(DOMAIN loc.fetched) :
          LET unsorted == getManagedClusterData(loc.fetched, loc.filters, order)
          IN  \E managedClusterData \in Sorted(unsorted, "ManagedClusters.Less") :
                 LET r == getSliceInRange(managedClusterData, loc.limit, loc.skip)
                 IN  /\ loc' = [loc EXCEPT !.unsorted = unsorted,
                                           !.data = managedClusterData,
                                           !.result = r.items]
                     /\ w' = IF r.err
                             THEN AbortWithError(w, StatusBadRequest, "invalid range")
                             ELSE JSON(w, StatusOK, ClusterResult(managedClusterData, r.items))

\* manager.getHelmChartsForCluster and the handler's return on its error.
HelmChartsFetch ==
    /\ UNCHANGED << reqCtx, process, inventory >>
    /\ pc = "authorized"
    /\ req.endpoint = "helmcharts"
    /\ UNCHANGED req
    /\ \E r \in getHelmChartsForCluster(loc.namespace, loc.name, loc.clusterType) :
          /\ calls' = Append(calls, InventoryCall("getHelmChartsForCluster", loc.clusterType,
                                                  loc.namespace, loc.name, FALSE))
          /\ IF r.err
             THEN w' = AbortWithError(w, StatusBadRequest, "inventory error")
                  /\ pc' = "done"
                  /\ UNCHANGED loc
             ELSE w' = w /\ pc' = "fetched"
                  /\ loc' = [loc EXCEPT !.fetched = r.list]

\* sort.Slice(helmCharts), getHelmReleaseInRange and the response.
HelmChartsRespond ==
    /\ UNCHANGED << reqCtx, process, inventory >>
    /\ pc = "fetched"
    /\ req.endpoint = "helmcharts"
    /\ UNCHANGED << req, calls >>
    /\ pc' = "done"
    /\ \E helmCharts \in Sorted(loc.fetched, "sortHelmCharts") :
          LET r == getSliceInRange(helmCharts, loc.limit, loc.skip)
          IN  /\ loc' = [loc EXCEPT !.unsorted = loc.fetched, !.data = helmCharts,
                                    !.result = r.items]
              /\ w' = IF r.err
                      THEN AbortWithError(w, StatusBadRequest, "invalid range")
                      ELSE JSON(w, StatusOK, HelmReleaseResult(helmCharts, r.items))

\* manager.getResourcesForCluster and the handler's return on its error.
ResourcesFetch ==
    /\ UNCHANGED << reqCtx, process, inventory >>
    /\ pc = "authorized"
    /\ req.endpoint = "resources"
    /\ UNCHANGED req
    /\ \E r \in getResourcesForCluster(loc.namespace, loc.name, loc.clusterType) :
          /\ calls' = Append(calls, InventoryCall("getResourcesForCluster", loc.clusterType,
                                                  loc.namespace, loc.name, FALSE))
          /\ IF r.err
             THEN w' = AbortWithError(w, StatusBadRequest, "inventory error")
                  /\ pc' = "done"
                  /\ UNCHANGED loc
             ELSE w' = w /\ pc' = "fetched"
                  /\ loc' = [loc EXCEPT !.fetched = r.list]

\* sort.Slice(resources), getResourcesInRange and the response.
ResourcesRespond ==
    /\ UNCHANGED << reqCtx, process, inventory >>
    /\ pc = "fetched"
    /\ req.endpoint = "resources"
    /\ UNCHANGED << req, calls >>
    /\ pc' = "done"
    /\ \E resources \in Sorted(loc.fetched, "sortResources") :
          LET r == getSliceInRange(resources, loc.limit, loc.skip)
          IN  /\ loc' = [loc EXCEPT !.unsorted = loc.fetched, !.data = resources,
                                    !.result = r.items]
              /\ w' = IF r.err
                      THEN AbortWithError(w, StatusBadRequest, "invalid range")
                      ELSE JSON(w, StatusOK, ResourceResult(resources, r.items))

\* Variant: the profile statuses are read before the permission check.
ClusterStatusFetch_BeforeAuthorize ==
    /\ UNCHANGED << reqCtx, process, inventory >>
    /\ pc = "authenticated"
    /\ req.endpoint = "getClusterStatus"
    /\ UNCHANGED << req, w >>
    /\ calls' = Append(calls, InventoryCall("GetClusterProfileStatusesByCluster",
                                            loc.clusterType, loc.namespace, loc.name, FALSE))
    /\ pc' = "fetched"
    /\ loc' = [loc EXCEPT !.fetched =
                   GetClusterProfileStatusesByCluster(loc.namespace, loc.name, loc.clusterType)]

\* manager.GetClusterProfileStatusesByCluster: it returns no error.
ClusterStatusFetch ==
    /\ UNCHANGED << reqCtx, process, inventory >>
    /\ pc = "authorized"
    /\ req.endpoint = "getClusterStatus"
    /\ UNCHANGED << req, w >>
    /\ calls' = Append(calls, InventoryCall("GetClusterProfileStatusesByCluster",
                                            loc.clusterType, loc.namespace, loc.name, FALSE))
    /\ pc' = "fetched"
    /\ loc' = [loc EXCEPT !.fetched =
                   GetClusterProfileStatusesByCluster(loc.namespace, loc.name, loc.clusterType)]

\* Variant: the statuses are flattened with failedOnly left false
\* (flattenProfileStatuses(clusterProfileStatuses, false)).
ClusterStatusRespond_AllRows ==
    /\ UNCHANGED << reqCtx, process, inventory >>
    /\ pc = "fetched"
    /\ req.endpoint = "getClusterStatus"
    /\ UNCHANGED << req, calls >>
    /\ pc' = "done"
    /\ LET flat == flattenProfileStatuses(loc.fetched, FALSE)
       IN  \E flattenedProfileStatuses \in Sorted(flat, "sortClusterProfileStatus") :
              LET r == getSliceInRange(flattenedProfileStatuses, loc.limit, loc.skip)
              IN  /\ loc' = [loc EXCEPT !.unsorted = flat,
                                        !.data = flattenedProfileStatuses,
                                        !.result = r.items]
                  /\ w' = IF r.err
                          THEN AbortWithError(w, StatusBadRequest, "invalid range")
                          ELSE JSON(w, StatusOK,
                                    ProfileStatusResult(flattenedProfileStatuses, r.items))

\* flattenProfileStatuses, sort.Slice, getFlattenedProfileStatusesInRange and
\* the response.
ClusterStatusRespond ==
    /\ UNCHANGED << reqCtx, process, inventory >>
    /\ pc = "fetched"
    /\ req.endpoint = "getClusterStatus"
    /\ UNCHANGED << req, calls >>
    /\ pc' = "done"
    /\ LET flat == flattenProfileStatuses(loc.fetched, loc.failedOnly)
       IN  \E flattenedProfileStatuses \in Sorted(flat, "sortClusterProfileStatus") :
              LET r == getSliceInRange(flattenedProfileStatuses, loc.limit, loc.skip)
              IN  /\ loc' = [loc EXCEPT !.unsorted = flat,
                                        !.data = flattenedProfileStatuses,
                                        !.result = r.items]
                  /\ w' = IF r.err
                          THEN AbortWithError(w, StatusBadRequest, "invalid range")
                          ELSE JSON(w, StatusOK,
                                    ProfileStatusResult(flattenedProfileStatuses, r.items))

\* The context of the request in flight is canceled (the client went away).
\* No handler reads c.Request.Context().Done(); the identity and permission
\* calls are made with context.TODO().
CancelRequest ==
    /\ pc \in {"parsed", "authenticated", "authorized", "fetched"}
    /\ ~reqCtx.canceled
    /\ reqCtx' = [canceled |-> TRUE, calls |-> Len(calls), w |-> w]
    /\ UNCHANGED << pc, req, w, calls, loc, process, inventory >>

\* The handler has returned: gin sends the response and recycles the context.
Finish ==
    /\ pc = "done"
    /\ reqCtx' = LiveContext
    /\ UNCHANGED << process, inventory >>
    /\ pc' = "idle"
    /\ req' = NoRequest
    /\ w' = NewWriter
    /\ calls' = << >>
    /\ loc' = ZeroLocals

Next ==
    \/ ListClustersParse
    \/ HelmChartsParse
    \/ ResourcesParse
    \/ ClusterStatusParse
    \/ validateToken
    \/ ListClustersAuthorize
    \/ ClusterAuthorize
    \/ ListClustersFetch
    \/ ListClustersRespond
    \/ HelmChartsFetch
    \/ HelmChartsRespond
    \/ ResourcesFetch
    \/ ResourcesRespond
    \/ ClusterStatusFetch
    \/ ClusterStatusRespond
    \/ CancelRequest
    \/ Finish

Spec == Init /\ [][Next]_vars


(***************************************************************************)
(* instance.start and its listener goroutine.  start makes the unbuffered  *)
(* channel errCh, starts the goroutine and waits in a select on ctx.Done() *)
(* and errCh; the goroutine runs r.Run, sends its error on errCh, logs it  *)
(* and sends the process SIGTERM.                                          *)
(***************************************************************************)
\* start has been called and has not yet started the goroutine.
LifecycleInit ==
    /\ NoRequestInFlight
    /\ startPc = "called"
    /\ listenerPc = "none"
    /\ ctxDone \in BOOLEAN
    /\ port \in Ports
    /\ runErr = ""
    /\ sigterm = FALSE
    /\ logged = << >>

\* start up to its select: the routes are registered, errCh is made and the
\* goroutine is started.
start ==
    /\ startPc = "called"
    /\ startPc' = "select"
    /\ listenerPc' = "run"
    /\ UNCHANGED << ctxDone, port, runErr, sigterm, logged, request, inventory >>

\* start's context is canceled from outside (a signal, the caller).
CancelContext ==
    /\ ~ctxDone
    /\ ctxDone' = TRUE
    /\ UNCHANGED << startPc, listenerPc, port, runErr, sigterm, logged, request, inventory >>

\* err := r.Run(port) returns: the listener could not be set up on the port,
\* or failed later.
RunReturns ==
    /\ listenerPc = "run"
    /\ \E err \in RunErrors : runErr' = err
    /\ listenerPc' = "send"
    /\ UNCHANGED << startPc, ctxDone, port, sigterm, logged, request, inventory >>

\* Variant: start leaves its select although neither case is ready (a
\* default case that returns).
SelectCtxDone_Default ==
    /\ startPc = "select"
    /\ startPc' = "returned"
    /\ logged' = Append(logged, "context canceled")
    /\ UNCHANGED << listenerPc, ctxDone, port, runErr, sigterm, request, inventory >>

\* case <-ctx.Done(): log and return.
SelectCtxDone ==
    /\ startPc = "select"
    /\ ctxDone
    /\ startPc' = "returned"
    /\ logged' = Append(logged, "context canceled")
    /\ UNCHANGED << listenerPc, ctxDone, port, runErr, sigterm, request, inventory >>

\* errCh <- err meets case <-errCh: the channel is unbuffered, so the send
\* completes only while start is in its select; start returns.
SelectErrCh ==
    /\ startPc = "select"
    /\ listenerPc = "send"
    /\ startPc' = "returned"
    /\ listenerPc' = "log"
    /\ UNCHANGED << ctxDone, port, runErr, sigterm, logged, request, inventory >>

\* ginLogger...Info("run failed: ...")
ListenerLog ==
    /\ listenerPc = "log"
    /\ logged' = Append(logged, "run failed: " \o runErr)
    /\ listenerPc' = "kill"
    /\ UNCHANGED << startPc, ctxDone, port, runErr, sigterm, request, inventory >>

\* syscall.Kill(syscall.Getpid(), syscall.SIGTERM); the goroutine ends.
ListenerKill ==
    /\ listenerPc = "kill"
    /\ sigterm' = TRUE
    /\ listenerPc' = "exit"
    /\ UNCHANGED << startPc, ctxDone, port, runErr, logged, request, inventory >>

LifecycleNext ==
    \/ start
    \/ CancelContext
    \/ RunReturns
    \/ SelectCtxDone
    \/ SelectErrCh
    \/ ListenerLog
    \/ ListenerKill

Lifecycle == LifecycleInit /\ [][LifecycleNext]_vars

\* The Go scheduler runs every goroutine that can take a step; when r.Run
\* returns and when the context is canceled is up to the environment.
FairLifecycle ==
    /\ Lifecycle
    /\ WF_vars(start)
    /\ WF_vars(SelectCtxDone)
    /\ WF_vars(SelectErrCh)
    /\ WF_vars(ListenerLog)
    /\ WF_vars(ListenerKill)


(***************************************************************************)
(* Properties.                                                             *)
(***************************************************************************)
Done == pc = "done"

IsListRequest == req.endpoint \in ListEndpoints

IsClusterRequest == req.endpoint \in {"helmcharts", "resources", "getClusterStatus"}

\* The outbound calls of one stage made so far for the request.
CallsOf(stage) == SelectSeq(calls, LAMBDA c : c.stage = stage)

\* The result objects written to the body, and whether any carries a row.
ResultObjects == SelectSeq(w.body, LAMBDA o : o.kind = "result")

NoRows == \A i \in 1..Len(ResultObjects) : ResultObjects[i].rows = << >>

\* The request's kind for the listing endpoints.
ListKind == KindOf(req.endpoint)

\* An error of the given text was recorded for the request.
Failed(msg) == \E i \in 1..Len(w.errors) : w.errors[i] = msg

\* C1: within one request the outbound calls are made in the order identity
\* provider (validateToken, getUserFromToken), then exactly one permission
\* check, then exactly one inventory query; a permission check is issued
\* only after the identity was returned and an inventory query only after
\* the permission check returned.
C1_StagesInOrder ==
    /\ Len(calls) <= 4
    /\ \A i \in 1..Len(calls) :
          calls[i].stage = (IF i <= 2 THEN "identity" ELSE IF i = 3 THEN "permission"
                            ELSE "inventory")
    /\ Len(calls) >= 1 => calls[1].op = "validateToken"
    /\ Len(calls) >= 2 => calls[2].op = "getUserFromToken"
    /\ Len(calls) >= 3 => pc \in {"authorized", "fetched", "done"}
    /\ Len(calls) >= 4 => pc \in {"fetched", "done"}
    /\ pc = "authenticated" => Len(calls) = 2
    /\ pc = "authorized" => Len(calls) = 3
    /\ pc = "fetched" => Len(calls) = 4

C1_Witness ==
    /\ Done
    /\ w.status = StatusOK
    /\ Len(calls) = 4
    /\ req.endpoint = "getClusterStatus"

\* C2 (as claimed): a request whose authentication failed (header missing,
\* token empty, token rejected, identity lookup failed) or whose permission
\* check returned an error is answered 401 and queries no inventory.
C2_AuthFailureIs401 ==
    (Done /\ (\/ Failed("failed to get token from authorization request")
              \/ Failed("failed to validate token")
              \/ Failed("failed to get user from token")
              \/ Failed("permission system error")))
        => (w.status = StatusUnauthorized /\ CallsOf("inventory") = << >>)

\* C3 (as claimed): on the single-cluster endpoints an explicit deny of the
\* get check is answered 401, queries no inventory and returns no row.
C3_DenyIs401 ==
    (Done /\ IsClusterRequest /\ Failed("no permissions to access this cluster"))
        => (w.status = StatusUnauthorized /\ CallsOf("inventory") = << >> /\ NoRows)

\* C4: for an identity that may not list all clusters of the kind, every row
\* a listing endpoint returns is a cluster the identity may get; the handler
\* passes the verdict of the list check and the identity to the manager, and
\* every row is a cluster the manager returned.
C4_RowsAreGettable ==
    (IsListRequest /\ CallsOf("inventory") # << >>) =>
        /\ CallsOf("inventory")[1].canListAll = AllowedList(loc.user, ListKind)
        /\ CallsOf("inventory")[1].user = loc.user
        /\ CallsOf("permission")[1].user = loc.user
        /\ \A i \in 1..Len(ResultObjects) : \A j \in 1..Len(ResultObjects[i].rows) :
              LET row == ResultObjects[i].rows[j]
              IN  /\ Key(row.namespace, row.name) \in DOMAIN loc.fetched
                  /\ Key(row.namespace, row.name) \in DOMAIN Inventory(ListKind)
                  /\ ~AllowedList(loc.user, ListKind) =>
                         AllowedGet(loc.user, ListKind, row.namespace, row.name)

C4_Witness ==
    /\ Done
    /\ req.endpoint = "capiclusters"
    /\ loc.user = "bob"
    /\ w.status = StatusOK
    /\ ~NoRows


\* A limit or skip parameter that is a negative integer.
IsNegativeInteger(s) ==
    /\ Len(s) >= 2
    /\ s[1] = "-"
    /\ \A i \in 2..Len(s) : IsDigit(s[i])
    /\ \E i \in 2..Len(s) : s[i] # "0"

\* A present limit or skip parameter that is not an integer.
IsNotInteger(s) ==
    /\ s # << >>
    /\ LET body == IF s[1] \in {"-", "+"} THEN Tail(s) ELSE s
       IN  body = << >> \/ \E i \in 1..Len(body) : ~IsDigit(body[i])

\* The handler got as far as windowing: the inventory query returned data.
ReachedWindow == Done /\ CallsOf("inventory") # << >> /\ ~Failed("inventory error")

BadClusterQuery ==
    \/ req.namespace = << >>
    \/ req.name = << >>
    \/ req.type = << >>
    \/ ~(EqualFold(req.type, ClusterTypeSveltos) \/ EqualFold(req.type, ClusterTypeCapi))

\* C6 (as claimed): a single-cluster request without namespace, name or a
\* recognized type (its other parameters absent, its token valid) is
\* answered 400 with exactly one error object, and no identity, permission
\* or inventory call is made for it.
C6_BadClusterStops ==
    (IsClusterRequest /\ BadClusterQuery /\ req.header = BearerPrefix \o tokAlice
        /\ req.limit = << >> /\ req.skip = << >> /\ req.failed = "")
        => /\ calls = << >>
           /\ Done => /\ w.status = StatusBadRequest
                      /\ Len(w.body) = 1
                      /\ w.body[1].kind = "error"

\* A limit or skip that is not an integer, or a failed that is not a boolean.
BadNumberOrBool ==
    \/ IsNotInteger(req.limit)
    \/ IsNotInteger(req.skip)
    \/ req.endpoint = "getClusterStatus" /\ req.failed # "" /\ ParseBool(req.failed).err

\* C7 (as claimed): a request with such a parameter (an otherwise
\* well-formed query and a valid token) is answered 400 with only the error
\* object in the body, no result rows, and is not processed any further.
C7_BadParamStops ==
    (BadNumberOrBool /\ req.header = BearerPrefix \o tokAlice
        /\ (IsClusterRequest => ~BadClusterQuery)
        /\ (IsListRequest => ~getClusterFiltersFromQuery(req).err))
        => /\ calls = << >>
           /\ Done => /\ w.status = StatusBadRequest
                      /\ Len(w.body) = 1
                      /\ w.body[1].kind = "error"
                      /\ NoRows

\* The header has the form "Bearer <token>" with a non-empty token.
WellFormedBearer(h) ==
    /\ Len(h) > Len(BearerPrefix)
    /\ SubSeq(h, 1, Len(BearerPrefix)) = BearerPrefix

\* The query of the request is well formed: no parser wrote anything.
CleanQuery ==
    /\ ~BadNumberOrBool
    /\ IsClusterRequest => ~BadClusterQuery
    /\ IsListRequest => ~getClusterFiltersFromQuery(req).err

\* C8 (as claimed): for every header that is not "Bearer <token>" with a
\* non-empty token the request is answered 401 and the identity provider is
\* never called.
C8_OnlyBearerAuthenticates ==
    (CleanQuery /\ ~WellFormedBearer(req.header) /\ pc \notin {"idle", "parsed"})
        => (w.status = StatusUnauthorized /\ CallsOf("identity") = << >>)


\* The key passes the three filters of the request, stated on the key alone.
KeyPasses(k, info, f) ==
    /\ f.Namespace = << >>
         \/ \E i, j \in 1..Len(k.namespace) : SubSeq(k.namespace, i, j) = f.Namespace
    /\ f.name = << >> \/ \E i, j \in 1..Len(k.name) : SubSeq(k.name, i, j) = f.name
    /\ f.labelSelector \subseteq info.labels

\* The number of per-feature statuses a flattening keeps.
RECURSIVE FeatureCount(_, _)
FeatureCount(statuses, failedOnly) ==
    IF statuses = << >> THEN 0
    ELSE Cardinality({i \in 1..Len(Head(statuses).features) :
                         failedOnly => Head(statuses).features[i].failed})
             + FeatureCount(Tail(statuses), failedOnly)

\* The length of the filtered sequence of the request before windowing.
ExpectedTotal ==
    IF IsListRequest
    THEN Cardinality({k \in DOMAIN loc.fetched : KeyPasses(k, loc.fetched[k], loc.filters)})
    ELSE IF req.endpoint = "getClusterStatus"
    THEN FeatureCount(ProfileStatusesOf(loc.clusterType, loc.namespace, loc.name),
                      req.failed = "true")
    ELSE Len(loc.fetched)

\* The slice [skip, min(skip + limit, len)) of d, empty when skip >= len.
ExpectedWindow(d, limit, skip) ==
    [i \in 1..(IF skip >= Len(d) THEN 0 ELSE Min(limit, Len(d) - skip)) |-> d[skip + i]]

\* The comparator of the request's result kind.
RowLess(a, b) ==
    IF IsListRequest THEN ClusterLess(a, b)
    ELSE IF req.endpoint = "helmcharts" THEN HelmLess(a, b)
    ELSE IF req.endpoint = "resources" THEN ResourceLess(a, b)
    ELSE StatusLess(a, b)

\* C9: a successful response carries exactly one result object; its total is
\* the length of the filtered (flattened, failed-only-filtered) sequence
\* before windowing and its rows are the slice [skip, min(skip+limit, len))
\* of the sorted sequence, empty when skip >= len.
C9_TotalAndWindow ==
    (Done /\ w.status = StatusOK) =>
        /\ Len(w.body) = 1
        /\ w.body[1].kind = "result"
        /\ loc.limit >= 0 /\ loc.skip >= 0
        /\ Len(loc.data) = ExpectedTotal
        /\ \A i, j \in 1..Len(loc.data) : i < j => ~RowLess(loc.data[j], loc.data[i])
        /\ w.body[1].total = ExpectedTotal
        /\ w.body[1].rows = ExpectedWindow(loc.data, loc.limit, loc.skip)
        /\ loc.skip >= ExpectedTotal => w.body[1].rows = << >>

C9_Witness ==
    /\ Done
    /\ w.status = StatusOK
    /\ IsListRequest
    /\ loc.skip >= Len(loc.data)
    /\ w.body[1].total = 2
    /\ w.body[1].rows = << >>

\* C10: getManagedClusterData returns one row for each key of the map that
\* passes the namespace, name and label filters and no other row; the row
\* carries the key's namespace, name and ClusterInfo; with no passing key
\* the result is the empty sequence.
C10_FilterExact ==
    (ReachedWindow /\ IsListRequest) =>
        LET passing == {k \in DOMAIN loc.fetched : KeyPasses(k, loc.fetched[k], loc.filters)}
            rows == loc.unsorted
        IN  /\ Len(rows) = Cardinality(passing)
            /\ \A k \in passing :
                  \E i \in 1..Len(rows) :
                     rows[i] = [namespace |-> k.namespace, name |-> k.name,
                                clusterInfo |-> loc.fetched[k]]
            /\ \A i \in 1..Len(rows) : Key(rows[i].namespace, rows[i].name) \in passing
            /\ passing = {} => rows = << >>

C10_Witness ==
    /\ ReachedWindow
    /\ req.endpoint = "capiclusters"
    /\ Cardinality(DOMAIN loc.fetched) = 3
    /\ loc.filters.Namespace = << "r", "o" >>
    /\ loc.filters.name = << "1" >>
    /\ loc.filters.labelSelector # {}
    /\ Len(loc.unsorted) = 1

\* The keys of S in ascending order of namespace, then name.
KeysInOrder(S) ==
    CHOOSE o \in Orders(S) :
        \A i, j \in 1..Cardinality(S) :
            i < j => KeyLess(<< o[i].namespace, o[i].name >>, << o[j].namespace, o[j].name >>)

\* The rows of the keys that pass the request's filters, in key order; it
\* does not depend on the order the map was ranged in.
ExpectedClusters ==
    LET passing == {k \in DOMAIN loc.fetched : KeyPasses(k, loc.fetched[k], loc.filters)}
        o == KeysInOrder(passing)
    IN  [i \in 1..Cardinality(passing) |->
            [namespace |-> o[i].namespace, name |-> o[i].name, clusterInfo |-> loc.fetched[o[i]]]]

\* The window of d that starts at the n-th multiple of limit.
Page(d, limit, n) == getSliceInRange(d, limit, n * limit).items

\* The windows for skip = 0, limit, 2*limit, ... one after the other.
RECURSIVE Pages(_, _, _)
Pages(d, limit, n) ==
    IF n * limit >= Len(d) THEN << >> ELSE Page(d, limit, n) \o Pages(d, limit, n + 1)

\* C11: a listing request that reaches windowing returns the same window
\* whatever order the inventory map is ranged in: the sorted sequence is the
\* filtered rows by namespace then name, for every order of the map; the
\* rows returned are the window of that sequence; and for a positive limit
\* the windows at skip = 0, limit, 2*limit, ... share no row and concatenate
\* to the whole sorted sequence.
C11_WindowIndependentOfMapOrder ==
    (ReachedWindow /\ IsListRequest) =>
        /\ loc.data = ExpectedClusters
        /\ \A order \in Orders(DOMAIN loc.fetched) :
              Sorted(getManagedClusterData(loc.fetched, loc.filters, order),
                     "ManagedClusters.Less") = {ExpectedClusters}
        /\ loc.result = getSliceInRange(ExpectedClusters, loc.limit, loc.skip).items
        /\ \A i \in 1..Len(ResultObjects) : ResultObjects[i].rows = loc.result
        /\ loc.limit > 0 =>
              /\ Pages(loc.data, loc.limit, 0) = loc.data
              /\ \A m, n \in 0..Len(loc.data) :
                    m # n => \A i \in 1..Len(Page(loc.data, loc.limit, m)) :
                                \A j \in 1..Len(Page(loc.data, loc.limit, n)) :
                                   Page(loc.data, loc.limit, m)[i] # Page(loc.data, loc.limit, n)[j]

\* A second page of a three-cluster listing whose map was ranged in an order
\* other than the sorted one.
C11_Witness ==
    /\ ReachedWindow
    /\ req.endpoint = "capiclusters"
    /\ w.status = StatusOK
    /\ Len(loc.data) = 3
    /\ loc.unsorted # loc.data
    /\ loc.limit = 1
    /\ loc.skip = 1
    /\ Len(ResultObjects) = 1
    /\ ResultObjects[1].rows = << loc.data[2] >>

\* The comparator of the request's result kind, by name.
RowCmp ==
    IF IsListRequest THEN "ManagedClusters.Less"
    ELSE IF req.endpoint = "helmcharts" THEN "sortHelmCharts"
    ELSE IF req.endpoint = "resources" THEN "sortResources"
    ELSE "sortClusterProfileStatus"

\* No element of t is less than the element before it.
IsSortedBy(t, cmp) == \A i \in 1..(Len(t) - 1) : ~Less(cmp, t[i + 1], t[i])

\* Every arrangement of the elements of s.
Arrangements(s) == {[i \in 1..Len(s) |-> s[o[i]]] : o \in Orders(1..Len(s))}

\* C12: for each of the four result kinds, sorting a sequence that is
\* already sorted by the kind's comparator leaves it as it is: the sequence
\* the handler sorted is sorted, every sorted arrangement of its rows (rows
\* that compare equal in either order) is returned unchanged by the sort,
\* and the window cut after a second sort is the window the handler cut.
C12_ResortIsIdentity ==
    ReachedWindow =>
        /\ IsSortedBy(loc.data, RowCmp)
        /\ \A t \in Arrangements(loc.unsorted) :
              IsSortedBy(t, RowCmp) => Sorted(t, RowCmp) = {t}
        /\ \A t \in Sorted(loc.data, RowCmp) :
              /\ t = loc.data
              /\ getSliceInRange(t, loc.limit, loc.skip).items = loc.result

\* A resource listing that the sort reordered and that holds two different
\* rows the comparator does not tell apart.
C12_Witness ==
    /\ ReachedWindow
    /\ req.endpoint = "resources"
    /\ w.status = StatusOK
    /\ loc.unsorted # loc.data
    /\ loc.result # << >>
    /\ \E i \in 1..(Len(loc.data) - 1) :
          /\ loc.data[i] # loc.data[i + 1]
          /\ ~Less(RowCmp, loc.data[i], loc.data[i + 1])
          /\ ~Less(RowCmp, loc.data[i + 1], loc.data[i])

\* The permission operation of the request, applied to the handler's locals.
PermissionOp ==
    IF req.endpoint = "capiclusters" THEN canListCAPIClusters(loc.user)
    ELSE IF req.endpoint = "sveltosclusters" THEN canListSveltosClusters(loc.user)
    ELSE IF loc.clusterType = ClusterTypeCapi
    THEN canGetCAPICluster(loc.namespace, loc.name, loc.user)
    ELSE canGetSveltosCluster(loc.namespace, loc.name, loc.user)

\* The verdict of the permission system on the review the operation issues.
Verdict(sar) ==
    IF sar.verb = "list" THEN AllowedList(sar.user, sar.resource)
    ELSE AllowedGet(sar.user, sar.resource, sar.namespace, sar.name)

\* The last error recorded for the request.
LastError == w.errors[Len(w.errors)]

\* C13: each permission operation returns (false, error) when the call
\* fails and (verdict, nil) otherwise.  On a listing endpoint an error ends
\* the request with that error and no inventory query, and a deny goes on
\* with canListAll = false; on a single-cluster endpoint an error ends the
\* request with that error and a deny ends it with "no permissions to access
\* this cluster".  No request whose permission call failed is handled as a
\* deny.
C13_ErrorIsNotDeny ==
    loc.review.made =>
        /\ \A r \in PermissionOp.results :
              IF r.err THEN ~r.allowed ELSE r.allowed = Verdict(PermissionOp.sar)
        /\ \E r \in PermissionOp.results : r.err
        /\ \E r \in PermissionOp.results : ~r.err
        /\ loc.review.err =>
              /\ ~loc.review.allowed
              /\ Done
              /\ LastError = "permission system error"
              /\ ~Failed("no permissions to access this cluster")
              /\ CallsOf("inventory") = << >>
              /\ ResultObjects = << >>
        /\ (IsListRequest /\ ~loc.review.err) =>
              /\ pc \in {"authorized", "fetched", "done"}
              /\ loc.canListAll = loc.review.allowed
              /\ ~Failed("permission system error")
              /\ pc \in {"fetched", "done"} =>
                    /\ Len(CallsOf("inventory")) = 1
                    /\ CallsOf("inventory")[1].canListAll = loc.review.allowed
        /\ (IsClusterRequest /\ ~loc.review.err /\ ~loc.review.allowed) =>
              /\ Done
              /\ LastError = "no permissions to access this cluster"
              /\ ~Failed("permission system error")
              /\ CallsOf("inventory") = << >>
        /\ (IsClusterRequest /\ ~loc.review.err /\ loc.review.allowed) =>
              /\ pc \in {"authorized", "fetched", "done"}
              /\ ~Failed("permission system error")
              /\ ~Failed("no permissions to access this cluster")

\* A listing request of a caller who may list everything, whose list check
\* failed.
C13_Witness ==
    /\ Done
    /\ req.endpoint = "sveltosclusters"
    /\ loc.user = "alice"
    /\ loc.review.made
    /\ loc.review.err
    /\ w.status = StatusUnauthorized

\* The caller behind the request's token may get the cluster the request
\* names but may not list the clusters of its kind.
NarrowCaller ==
    LET user == Username(SliceFrom(req.header, Len(BearerPrefix)))
        kind == IF EqualFold(req.type, ClusterTypeCapi) THEN ClusterTypeCapi
                ELSE ClusterTypeSveltos
    IN  /\ WellFormedBearer(req.header)
        /\ ~AllowedList(user, kind)
        /\ AllowedGet(user, kind, req.namespace, req.name)

\* C14 (as claimed): a single-cluster request issues no permission check
\* but one get check for the namespace, name and kind of the request, and a
\* caller denied list-all but allowed get on that cluster, whose calls all
\* succeed, receives the cluster's data; a listing request issues no
\* permission check but one list check with no namespace and no name.
C14_ListAndGetNotMerged ==
    /\ Len(CallsOf("permission")) <= 1
    /\ \A i \in 1..Len(CallsOf("permission")) :
          LET chk == CallsOf("permission")[i]
          IN  IF IsListRequest
              THEN /\ chk.op \in {"canListCAPIClusters", "canListSveltosClusters"}
                   /\ chk.kind = ListKind
                   /\ chk.namespace = << >>
                   /\ chk.name = << >>
              ELSE /\ chk.op = "canGetCluster"
                   /\ chk.namespace = req.namespace
                   /\ chk.name = req.name
                   /\ EqualFold(chk.kind, req.type)
    /\ (Done /\ IsClusterRequest /\ NarrowCaller /\ w.errors = << >>) =>
          /\ Len(ResultObjects) = 1
          /\ ResultObjects[1].total = Len(loc.fetched) \/ req.endpoint = "getClusterStatus"
          /\ ResultObjects[1].rows = loc.result

\* C15 (as claimed): on every endpoint a request with a well-formed query
\* is answered 401 when the identity provider or the permission system
\* fails and 400 when the inventory query fails.
C15_UpstreamFailureStatus ==
    (Done /\ CleanQuery) =>
        /\ (\/ Failed("failed to validate token")
            \/ Failed("failed to get user from token")
            \/ Failed("permission system error")) => w.status = StatusUnauthorized
        /\ Failed("inventory error") => w.status = StatusBadRequest

\* C16 (as claimed): every response (here: of a request with a well-formed
\* query and a "Bearer <token>" header) is either a 200 whose body is one
\* result object, a total and a window, or a 400 or 401 whose body is one
\* error object.
C16_ResponseShape ==
    (Done /\ CleanQuery /\ WellFormedBearer(req.header)) =>
        \/ /\ w.status = StatusOK
           /\ Len(w.body) = 1
           /\ w.body[1].kind = "result"
        \/ /\ w.status \in {StatusBadRequest, StatusUnauthorized}
           /\ Len(w.body) = 1
           /\ w.body[1].kind = "error"

\* C17 (as claimed): once the context of the request in flight is canceled,
\* no further outbound call is made for the request and the handler writes
\* nothing more: the calls and the response writer stay as they were when
\* the context was canceled.
C17_CanceledRequestAbandoned ==
    reqCtx.canceled => (Len(calls) = reqCtx.calls /\ w = reqCtx.w)

\* r.Run has returned in the listener goroutine.
RunReturned == listenerPc \in {"send", "log", "kill", "exit"}

\* C18 (as claimed): whenever r.Run has returned, SIGTERM is eventually sent
\* to the process, in every interleaving of the listener goroutine with the
\* cancellation of start's context.
C18_RunReturnLeadsToSigterm == RunReturned ~> sigterm

\* C19: start has not returned while its context is not canceled and r.Run
\* has not returned; once the context is canceled or r.Run has returned,
\* start eventually returns; and once r.Run has returned it is never run
\* again.
C19_StartReturns ==
    /\ [](startPc = "returned" => (ctxDone \/ RunReturned))
    /\ (ctxDone \/ RunReturned) ~> (startPc = "returned")
    /\ [][RunReturned => RunReturned']_vars

\* start returned because r.Run failed, its context never canceled.
C19_Witness ==
    /\ startPc = "returned"
    /\ ~ctxDone
    /\ listenerPc = "exit"
    /\ sigterm

\* C20 (as claimed): the identity validateToken returns without error is a
\* non-empty username, and no permission check is issued for an empty user.
C20_IdentityNonEmpty ==
    /\ pc \in {"authenticated", "authorized", "fetched"} => loc.user # ""
    /\ \A i \in 1..Len(CallsOf("permission")) : CallsOf("permission")[i].user # ""

\* The per-feature statuses of the profiles of the request's cluster that
\* are failures, as (profile, feature) places.
FailingFeatures ==
    LET statuses == ProfileStatusesOf(loc.clusterType, loc.namespace, loc.name)
    IN  {<< p, f >> \in (DOMAIN statuses) \X (1..2) :
            /\ f \in DOMAIN statuses[p].features
            /\ statuses[p].features[f].failed}

\* The row the flattening makes of one per-feature status.
RowOf(p, f) ==
    LET ps == ProfileStatusesOf(loc.clusterType, loc.namespace, loc.name)[p]
    IN  [profileName |-> ps.profileName, clusterNamespace |-> ps.clusterNamespace,
         clusterName |-> ps.clusterName, featureID |-> ps.features[f].featureID,
         failed |-> ps.features[f].failed]

\* C21: for /getClusterStatus with failed=true and an authorized caller,
\* every row kept is a failure, already before the sort; every failing
\* per-feature status of the cluster's profiles is in the pre-window
\* sequence exactly once and nothing else is; the sequence is ordered by
\* profile name, cluster identity, feature identifier; and the total and
\* the window of the response are taken from that sequence.
C21_FailedOnlyRows ==
    (ReachedWindow /\ req.endpoint = "getClusterStatus" /\ req.failed = "true") =>
        /\ loc.failedOnly
        /\ \A i \in 1..Len(loc.unsorted) : loc.unsorted[i].failed
        /\ \A i \in 1..Len(loc.data) : loc.data[i].failed
        /\ Len(loc.unsorted) = Cardinality(FailingFeatures)
        /\ Len(loc.data) = Cardinality(FailingFeatures)
        /\ \A pf \in FailingFeatures :
              Cardinality({i \in 1..Len(loc.data) : loc.data[i] = RowOf(pf[1], pf[2])}) = 1
        /\ \A i, j \in 1..Len(loc.data) :
              i < j => StatusLess(loc.data[i], loc.data[j])
        /\ Failed("invalid range") \/ loc.result = ExpectedWindow(loc.data, loc.limit, loc.skip)
        /\ \A i \in 1..Len(ResultObjects) :
              /\ ResultObjects[i].total = Cardinality(FailingFeatures)
              /\ ResultObjects[i].rows = loc.result
              /\ \A j \in 1..Len(ResultObjects[i].rows) : ResultObjects[i].rows[j].failed

\* A failed-only status listing of a cluster with two failing and two
\* passing per-feature statuses, which the sort reordered.
C21_Witness ==
    /\ ReachedWindow
    /\ req.endpoint = "getClusterStatus"
    /\ req.failed = "true"
    /\ w.status = StatusOK
    /\ Len(ProfileStatusesOf(loc.clusterType, loc.namespace, loc.name)) = 2
    /\ Cardinality(FailingFeatures) = 2
    /\ loc.unsorted # loc.data
    /\ Len(loc.result) = 2


(***************************************************************************)
(* C22: the inventory is read-only to the handlers.                        *)
(***************************************************************************)
\* The map the manager hands to the caller of the list request in flight,
\* computed from the inventory as it was before any request.
ReturnedMap ==
    LET inv == InitialInventory[ListKind]
    IN  Restrict(inv, IF loc.canListAll THEN DOMAIN inv
                      ELSE {k \in DOMAIN inv :
                               AllowedGet(loc.user, ListKind, k.namespace, k.name)})

NamesKind(kind) == EqualFold(req.type, kind)

\* C23: every get check issued for a per-cluster request is against the CAPI
\* Cluster resource exactly when the request's type parameter names Capi and
\* against the SveltosCluster resource exactly when it names Sveltos; no
\* check is issued for a request whose type parameter names neither.
C23_KindCheckedIsKindRequested ==
    IsClusterRequest =>
        \A i \in 1..Len(CallsOf("permission")) :
            LET chk == CallsOf("permission")[i]
            IN  /\ NamesKind(ClusterTypeCapi) \/ NamesKind(ClusterTypeSveltos)
                /\ (chk.kind = ClusterTypeCapi) <=> NamesKind(ClusterTypeCapi)
                /\ (chk.kind = ClusterTypeSveltos) <=> NamesKind(ClusterTypeSveltos)


(***************************************************************************)
(* C24: the values getLimitAndSkipFromQuery returns.                       *)
(***************************************************************************)
\* A limit or skip parameter that is present and an integer, and its value.
IsInteger(s) == s # << >> /\ ~IsNotInteger(s)

IntegerOf(s) ==
    IF s[1] = "-" THEN 0 - DecimalValue(Tail(s), 0)
    ELSE IF s[1] = "+" THEN DecimalValue(Tail(s), 0)
    ELSE DecimalValue(s, 0)

\* The value returned for a parameter when it depends on that parameter
\* alone: the default when absent, the integer when well-formed, and the
\* zero strconv.Atoi leaves when not.
ValueAlone(s, default) ==
    IF s = << >> THEN default ELSE IF IsInteger(s) THEN IntegerOf(s) ELSE 0

\* getLimitAndSkipFromQuery has run for the request in flight.
LimitAndSkipParsed == pc # "idle"

\* C24 (as claimed): getLimitAndSkipFromQuery returns limit = 6 when limit is
\* absent, skip = 0 when skip is absent, the parsed integer for each
\* parameter that is present and well-formed, and the value returned for one
\* parameter is determined by that parameter alone.
C24_LimitAndSkipIndependent ==
    LimitAndSkipParsed =>
        /\ loc.limit = ValueAlone(req.limit, maxItems)
        /\ loc.skip = ValueAlone(req.skip, 0)

\* C24 (amended): limit is determined by the limit parameter alone (6 when
\* absent, the integer when well-formed); skip is 0 when absent and the
\* integer when well-formed provided the limit parameter is absent or
\* well-formed; when the limit parameter is present and not an integer the
\* function returns at once with limit = 0 and skip = 0, whatever the skip
\* parameter is.
C24_LimitAndSkipReturned ==
    LimitAndSkipParsed =>
        /\ req.limit = << >> => loc.limit = maxItems
        /\ IsInteger(req.limit) => loc.limit = IntegerOf(req.limit)
        /\ ~IsNotInteger(req.limit) => loc.skip = ValueAlone(req.skip, 0)
        /\ IsNotInteger(req.limit) => (loc.limit = 0 /\ loc.skip = 0)

\* A request with a limit that is not an integer and a well-formed skip of 2
\* has been parsed, and skip came back 0.
C24_Witness ==
    /\ pc = "parsed"
    /\ req.limit = << "x" >>
    /\ req.skip = Itoa(2)
    /\ loc.limit = 0
    /\ loc.skip = 0

=============================================================================
